---- MODULE Spec2Model ----
(***************************************************************************)
(* The mutating admission webhook of mutating-webhook-poc (main.go).       *)
(*                                                                         *)
(* Strings that the engine only copies or compares whole (uid, kind,       *)
(* namespace names, label keys) are TLA+ strings.  Label values, which the *)
(* engine splices into the patch text, are sequences of one-character      *)
(* strings, and a patch is the sequence of its text pieces: the literals   *)
(* of the source and, between them, the characters of the spliced value.   *)
(***************************************************************************)
EXTENDS Naturals, Sequences, FiniteSets, TLC

\* ---------------------------------------------------------------- bounds

\* Requests the concurrent server handles in one run.
NumReq == 2

\* Longest appName / car_id value the engine runs draw.
MaxLen == 2

\* ------------------------------------------------------------ label text

Quote == "\""
Backslash == "\\"

\* Characters of label values: an ordinary one and the two JSON gives a
\* meaning inside a string literal.
Alphabet == {"a", Quote, Backslash}

Values == UNION {[1..n -> Alphabet] : n \in 0..MaxLen}

LabelKeys == {"appName", "car_id", "service"}

NoLabels == [k \in {} |-> <<>>]

\* unstructured.GetLabels: the labels of metadata.labels, none when the map
\* is absent (a nil map, in which every lookup misses).
GetLabels(obj) == IF obj.hasLabels THEN obj.labels ELSE NoLabels

hasLabel(labels, key) == key \in DOMAIN labels

\* fmt.Sprintf("%s-%s", appName, carID)
Sprintf2(appName, carID) == appName \o <<"-">> \o carID

\* The switch that builds serviceVal; derived is FALSE in its default case.
ServiceValNoDefault(podLabels) ==
    CASE hasLabel(podLabels, "appName") /\ hasLabel(podLabels, "car_id") ->
           [derived |-> TRUE,
            val |-> Sprintf2(podLabels["appName"], podLabels["car_id"])]
      [] hasLabel(podLabels, "appName") /\ ~hasLabel(podLabels, "car_id") ->
           [derived |-> TRUE, val |-> podLabels["appName"]]
      [] ~hasLabel(podLabels, "appName") /\ hasLabel(podLabels, "car_id") ->
           [derived |-> TRUE, val |-> podLabels["car_id"]]
      [] OTHER -> [derived |-> TRUE, val |-> <<>>]

ServiceVal(podLabels) ==
    CASE hasLabel(podLabels, "appName") /\ hasLabel(podLabels, "car_id") ->
           [derived |-> TRUE,
            val |-> Sprintf2(podLabels["appName"], podLabels["car_id"])]
      [] hasLabel(podLabels, "appName") /\ ~hasLabel(podLabels, "car_id") ->
           [derived |-> TRUE, val |-> podLabels["appName"]]
      [] ~hasLabel(podLabels, "appName") /\ hasLabel(podLabels, "car_id") ->
           [derived |-> TRUE, val |-> podLabels["car_id"]]
      [] OTHER -> [derived |-> FALSE, val |-> <<>>]

\* val, ok := podLabels["service"]; ok && val == serviceVal
AlreadySetNever(podLabels, serviceVal) == FALSE

AlreadySet(podLabels, serviceVal) ==
    hasLabel(podLabels, "service") /\ podLabels["service"] = serviceVal

\* ------------------------------------------------------------ patch text

serviceLabelPath == "/metadata/labels/service"

\* The literals of the three patch templates.  The quote that closes the
\* value is a piece of its own, so that a reader of the text meets it as it
\* meets the characters of the value.
TplAddMapThenAdd ==
    "[ { \"op\": \"add\", \"path\": \"/metadata/labels\", \"value\": {} }, { \"op\": \"add\", \"path\": \""
TplAdd == "[ { \"op\": \"add\", \"path\": \""
TplReplace == "[ { \"op\": \"replace\", \"path\": \""
TplValue == "\", \"value\": \""
TplClose == " } ]"

PatchText(open, serviceVal) ==
    <<open, serviceLabelPath, TplValue>> \o serviceVal \o <<Quote, TplClose>>

\* The switch that picks the template: labels map nil, key absent, key present.
BuildPatch(labelsNil, podLabels, serviceVal) ==
    CASE labelsNil -> PatchText(TplAddMapThenAdd, serviceVal)
      [] ~labelsNil /\ ~hasLabel(podLabels, "service") ->
           PatchText(TplAdd, serviceVal)
      [] OTHER -> PatchText(TplReplace, serviceVal)

\* ------------------------------------------------------------- decisions

NoPatch == <<>>

NilResponse ==
    [isNil |-> TRUE, allowed |-> FALSE, uid |-> "", patch |-> NoPatch,
     patchType |-> ""]

\* &admissionv1.AdmissionResponse{Allowed: true, UID: ar.Request.UID}
AllowResponseNoUID(uid) ==
    [isNil |-> FALSE, allowed |-> TRUE, uid |-> "", patch |-> NoPatch,
     patchType |-> ""]

AllowResponseDeny(uid) ==
    [isNil |-> FALSE, allowed |-> FALSE, uid |-> uid, patch |-> NoPatch,
     patchType |-> ""]

AllowResponse(uid) ==
    [isNil |-> FALSE, allowed |-> TRUE, uid |-> uid, patch |-> NoPatch,
     patchType |-> ""]

\* reviewResponse.Patch = patch; reviewResponse.PatchType = &pt
WithPatch(response, patch) ==
    [response EXCEPT !.patch = patch, !.patchType = "JSONPatch"]

\* addLabel from the namespace lookup's success to its return.
Decide(request) ==
    LET podLabels == GetLabels(request)
        sv == ServiceVal(podLabels)
    IN  IF ~sv.derived THEN AllowResponse(request.uid)
        ELSE IF AlreadySet(podLabels, sv.val) THEN AllowResponse(request.uid)
        ELSE WithPatch(AllowResponse(request.uid),
                       BuildPatch(~request.hasLabels, podLabels, sv.val))

\* namespaceName: the request's, else the object's, else "default".
EffectiveNamespace(request) ==
    IF request.reqNs # "" THEN request.reqNs
    ELSE IF request.objNs # "" THEN request.objNs
    ELSE "default"

\* ------------------------------------------- the patch, as its reader sees it
\* The API server decodes the patch bytes as JSON (RFC 8259) and applies the
\* operations in order (RFC 6902).  These definitions read the text that
\* PatchText wrote; they model no code of the webhook.

Malformed == [ok |-> FALSE, ops |-> <<>>]

\* A string literal's body from position i of text: a backslash takes the next
\* character, which must be one JSON allows after it; an unescaped quote ends
\* the literal.  With the literal ended, only the closing literal may follow.
RECURSIVE ReadString(_, _, _)
ReadString(text, i, acc) ==
    IF i > Len(text) THEN [ok |-> FALSE, val |-> <<>>]
    ELSE IF text[i] = Quote
         THEN IF SubSeq(text, i + 1, Len(text)) = <<TplClose>>
              THEN [ok |-> TRUE, val |-> acc]
              ELSE [ok |-> FALSE, val |-> <<>>]
    ELSE IF text[i] = Backslash
         THEN IF i + 1 <= Len(text) /\ text[i + 1] \in {Quote, Backslash}
              THEN ReadString(text, i + 2, Append(acc, text[i + 1]))
              ELSE [ok |-> FALSE, val |-> <<>>]
    ELSE IF text[i] \in Alphabet \cup {"-"}
         THEN ReadString(text, i + 1, Append(acc, text[i]))
    ELSE [ok |-> FALSE, val |-> <<>>]

AddMapOp == [op |-> "add", path |-> "/metadata/labels", value |-> <<>>]

\* The operations a patch text decodes to, or Malformed.
DecodePatch(text) ==
    IF Len(text) < 5 \/ text[3] # TplValue
         \/ text[1] \notin {TplAddMapThenAdd, TplAdd, TplReplace}
    THEN Malformed
    ELSE LET str == ReadString(text, 4, <<>>)
             last == [op |-> IF text[1] = TplReplace THEN "replace" ELSE "add",
                      path |-> text[2], value |-> str.val]
         IN  IF ~str.ok THEN Malformed
             ELSE [ok |-> TRUE,
                   ops |-> IF text[1] = TplAddMapThenAdd
                           THEN <<AddMapOp, last>> ELSE <<last>>]

SetLabel(labels, key, val) ==
    [k \in DOMAIN labels \cup {key} |-> IF k = key THEN val ELSE labels[k]]

\* One RFC 6902 operation on an object's labels.  add needs the parent to
\* exist and replaces a member that is there; replace needs the member.
ApplyOp(obj, op) ==
    IF ~obj.ok THEN obj
    ELSE IF op.path = "/metadata/labels"
         THEN [ok |-> op.op = "add" \/ obj.hasLabels, hasLabels |-> TRUE,
               labels |-> NoLabels]
    ELSE IF op.op = "add"
         THEN [ok |-> obj.hasLabels, hasLabels |-> obj.hasLabels,
               labels |-> SetLabel(GetLabels(obj), "service", op.value)]
    ELSE [ok |-> obj.hasLabels /\ hasLabel(GetLabels(obj), "service"),
          hasLabels |-> obj.hasLabels,
          labels |-> SetLabel(GetLabels(obj), "service", op.value)]

RECURSIVE ApplyOps(_, _)
ApplyOps(obj, ops) ==
    IF ops = <<>> THEN obj ELSE ApplyOps(ApplyOp(obj, Head(ops)), Tail(ops))

\* The labels of request's object with the patch text applied; ok is FALSE
\* when the text does not decode or an operation does not apply.
ApplyPatch(request, text) ==
    LET d == DecodePatch(text)
        start == [ok |-> d.ok, hasLabels |-> request.hasLabels,
                  labels |-> GetLabels(request)]
    IN  ApplyOps(start, d.ops)

\* -------------------------------------------------------------- requests

\* An admission call as the handler meets it: the envelope as parseRequest
\* finds it, the request's uid and namespace, and of the submitted object
\* whether it converts, its kind, its namespace and its labels.
Request(envelope, uid, reqNs, decodable, kind, objNs, hasLabels, labels) ==
    [envelope |-> envelope, uid |-> uid, reqNs |-> reqNs,
     decodable |-> decodable, kind |-> kind, objNs |-> objNs,
     hasLabels |-> hasLabels, labels |-> labels]

NoRequest == Request("none", "", "", FALSE, "", "", FALSE, NoLabels)

UidOf(r) == "uid-" \o ToString(r)

A1 == <<"a">>

\* Label maps of the server runs: none, empty, the walkthrough's pair, the
\* pair with the label already set, and one source label beside a stale one.
ServerObjects ==
    { <<"Pod", "", "", FALSE, NoLabels>>,
      <<"Pod", "prod", "dev", TRUE, NoLabels>>,
      <<"Pod", "", "dev", TRUE, [k \in {"appName", "car_id"} |-> A1]>>,
      <<"Pod", "prod", "", TRUE,
        [k \in LabelKeys |-> IF k = "service" THEN Sprintf2(A1, A1) ELSE A1]>>,
      <<"Pod", "", "", TRUE, [k \in {"car_id", "service"} |->
                                IF k = "service" THEN <<>> ELSE A1]>>,
      <<"Deployment", "prod", "", TRUE, [k \in {"appName", "car_id"} |-> A1]>>,
      <<"Deployment", "", "", FALSE, NoLabels>> }

ServerRequests(r) ==
    { Request(e, UidOf(r), "", FALSE, "", "", FALSE, NoLabels) :
        e \in {"badContentType", "malformed", "missingRequest"} }
    \cup { Request("ok", UidOf(r), "prod", FALSE, "", "", FALSE, NoLabels) }
    \cup { Request("ok", UidOf(r), o[2], TRUE, o[1], o[3], o[4], o[5]) :
             o \in ServerObjects }

\* Label maps of the engine runs: appName and car_id each absent or any of
\* Values, and service absent, equal to the value the engine derives, or "a".
SourceLabels ==
    UNION { [D -> Values] : D \in SUBSET {"appName", "car_id"} }

ServiceOptions(src) ==
    {A1} \cup (IF ServiceVal(src).derived THEN {ServiceVal(src).val} ELSE {})

EngineLabels ==
    SourceLabels
    \cup UNION { { SetLabel(src, "service", v) : v \in ServiceOptions(src) } :
                 src \in SourceLabels }

EngineRequests(r) ==
    { Request("ok", UidOf(r), "", TRUE, "Pod", "", FALSE, NoLabels),
      Request("ok", UidOf(r), "", TRUE, "Deployment", "", FALSE, NoLabels) }
    \cup { Request("ok", UidOf(r), "", TRUE, kind, "dev", TRUE, l) :
             kind \in {"Pod", "Deployment"}, l \in EngineLabels }

\* ------------------------------------------------------------- responses

NoResponse == [status |-> 0, body |-> "none", review |-> NilResponse]

\* http.Error(w, err.Error(), status)
HttpError(status) == [status |-> status, body |-> "text", review |-> NilResponse]

\* What addLabel returns: (out, err).
Returned(out, err) == [has |-> TRUE, out |-> out, err |-> err]
NotReturned == [has |-> FALSE, out |-> NilResponse, err |-> ""]

\* addLabelHook after addLabel has returned (out, err).
HookResponse(out, err) ==
    IF err # "" THEN HttpError(500)
    ELSE [status |-> 200, body |-> "review", review |-> out]

\* addLabel from the namespace Get's answer on.
AfterLookupIgnoringErr(request, outcome) == Returned(Decide(request), "")

AfterLookup(request, outcome) ==
    IF outcome # "found"
    THEN Returned(NilResponse, "failed to fetch namespace")
    ELSE Returned(Decide(request), "")

\* addLabel from GetKubeClient's return to the namespace Get; has is FALSE
\* when it goes on to the Get.
BeforeLookup(request, err) ==
    IF err # "" THEN Returned(NilResponse, "failed to get Kubernetes client")
    ELSE IF ~request.decodable
         THEN Returned(NilResponse, "failed to convert object")
    ELSE IF request.kind # "Pod" THEN Returned(AllowResponse(request.uid), "")
    ELSE NotReturned

\* ----------------------------------------------------------------- state

VARIABLES
    pc,         \* where each request's handler goroutine stands
    req,        \* the request each handler parsed
    err,        \* GetKubeClient's local err of each handler
    c,          \* the handle GetKubeClient returned to each handler
    ret,        \* what addLabel returned to each handler
    resp,       \* what each handler wrote to its connection
    apiCalls,   \* the calls each handler made through the handle
    first,      \* of a resubmitted object: the request and decision before
    clientset,  \* the global handle: 0 is nil, n the client of the n-th run
    initDone,   \* initOnce's done flag
    initMutex,  \* initOnce's mutex: the handler holding it, or 0
    initRuns    \* how often initializeClient has run

vars == <<pc, req, err, c, ret, resp, apiCalls, first, clientset, initDone,
          initMutex, initRuns>>

NoFirst == [has |-> FALSE, request |-> NoRequest, out |-> NilResponse]

InitFor(slots) ==
    /\ pc = [r \in slots |-> "idle"]
    /\ req = [r \in slots |-> NoRequest]
    /\ err = [r \in slots |-> ""]
    /\ c = [r \in slots |-> 0]
    /\ ret = [r \in slots |-> NotReturned]
    /\ resp = [r \in slots |-> NoResponse]
    /\ apiCalls = [r \in slots |-> <<>>]
    /\ first = [r \in slots |-> NoFirst]
    /\ clientset = 0
    /\ initDone = FALSE
    /\ initMutex = 0
    /\ initRuns = 0

\* The server with NumReq admission calls in flight at once.
ServerSlots == 1..NumReq

Init == InitFor(ServerSlots)

\* One call at a time, for the engine's input-output behaviour.
EngineSlots == {1}

InitEngine == InitFor(EngineSlots)

once == <<clientset, initDone, initMutex, initRuns>>

\* The handler ends: addLabel has returned (out, e) and the hook answers.
Finish(r, result) ==
    /\ ret' = [ret EXCEPT ![r] = result]
    /\ resp' = [resp EXCEPT ![r] = HookResponse(result.out, result.err)]
    /\ pc' = [pc EXCEPT ![r] = "done"]

\* addLabelHook up to its call of addLabel: parseRequest refuses a wrong
\* content type, an undecodable body and a review without a request.
parseRequest(r, request) ==
    /\ pc[r] = "idle"
    /\ req' = [req EXCEPT ![r] = request]
    /\ IF request.envelope # "ok"
       THEN /\ resp' = [resp EXCEPT ![r] = HttpError(400)]
            /\ pc' = [pc EXCEPT ![r] = "done"]
       ELSE /\ pc' = [pc EXCEPT ![r] = "GetKubeClient"]
            /\ UNCHANGED resp
    /\ UNCHANGED <<err, c, ret, apiCalls, first, once>>

addLabelHook(r) ==
    /\ pc[r] = "idle"
    /\ \E request \in ServerRequests(r) : parseRequest(r, request)

addLabelHookEngine(r) ==
    /\ pc[r] = "idle"
    /\ \E request \in EngineRequests(r) : parseRequest(r, request)

\* initOnce.Do: with done set the call returns at once, err still nil.
OnceRunsUnless(done) == ~done

\* Once.doSlow's m.Lock() goes through when no handler holds the mutex.
LockFreeAlways(holder) == TRUE

LockFree(holder) == holder = 0

GetKubeClient(r) ==
    /\ pc[r] = "GetKubeClient"
    /\ pc' = [pc EXCEPT ![r] = IF OnceRunsUnless(initDone)
                                THEN "doSlow" ELSE "addLabel"]
    /\ UNCHANGED <<req, err, c, ret, resp, apiCalls, first, once>>

\* Once.doSlow: take the mutex, look at done again, and run f if it is unset.
doSlow(r) ==
    /\ pc[r] = "doSlow"
    /\ LockFree(initMutex)
    /\ IF OnceRunsUnless(initDone)
       THEN /\ initMutex' = r
            /\ pc' = [pc EXCEPT ![r] = "initializeClient"]
       ELSE /\ pc' = [pc EXCEPT ![r] = "addLabel"]
            /\ UNCHANGED initMutex
    /\ UNCHANGED <<req, err, c, ret, resp, apiCalls, first, clientset,
                   initDone, initRuns>>

\* clientset, err = initializeClient(): a client, or nil and an error when
\* neither the in-cluster configuration nor a kubeconfig can be had.
initializeClient(r) ==
    /\ pc[r] = "initializeClient"
    /\ \E ok \in BOOLEAN :
         /\ clientset' = IF ok THEN initRuns + 1 ELSE 0
         /\ err' = [err EXCEPT ![r] = IF ok THEN ""
                                      ELSE "failed to build kubeconfig"]
    /\ initRuns' = initRuns + 1
    /\ pc' = [pc EXCEPT ![r] = "initialized"]
    /\ UNCHANGED <<req, c, ret, resp, apiCalls, first, initDone, initMutex>>

\* doSlow's deferred calls: done is stored, the mutex released.
onceDone(r) ==
    /\ pc[r] = "initialized"
    /\ initDone' = TRUE
    /\ initMutex' = 0
    /\ pc' = [pc EXCEPT ![r] = "addLabel"]
    /\ UNCHANGED <<req, err, c, ret, resp, apiCalls, first, clientset,
                   initRuns>>

\* GetKubeClient returns (clientset, err); addLabel runs on to the namespace
\* Get, or returns before it.
addLabel(r) ==
    /\ pc[r] = "addLabel"
    /\ c' = [c EXCEPT ![r] = clientset]
    /\ LET result == BeforeLookup(req[r], err[r])
       IN  IF result.has
           THEN Finish(r, result)
           ELSE /\ pc' = [pc EXCEPT ![r] = "NamespacesGet"]
                /\ UNCHANGED <<ret, resp>>
    /\ UNCHANGED <<req, err, apiCalls, first, once>>

\* c.CoreV1().Namespaces().Get(...): on a nil handle the call dereferences
\* nil and the handler goroutine panics, which net/http answers by closing
\* the connection; otherwise the API server's answer decides.
GetCall(name, outcome) ==
    [verb |-> "get", resource |-> "namespaces", name |-> name,
     outcome |-> outcome]

\* The calls one lookup makes: a single Get, whatever its outcome.
LookupCallsRetrying(name, outcome) ==
    IF outcome = "found" THEN <<GetCall(name, outcome)>>
    ELSE <<GetCall(name, outcome), GetCall(name, outcome)>>

LookupCalls(name, outcome) == <<GetCall(name, outcome)>>

NamespacesGet(r) ==
    /\ pc[r] = "NamespacesGet"
    /\ IF c[r] = 0
       THEN /\ pc' = [pc EXCEPT ![r] = "panicked"]
            /\ UNCHANGED <<ret, resp, apiCalls>>
       ELSE \E outcome \in {"found", "notfound", "transport"} :
              /\ apiCalls' = [apiCalls EXCEPT ![r] =
                    @ \o LookupCalls(EffectiveNamespace(req[r]), outcome)]
              /\ Finish(r, AfterLookup(req[r], outcome))
    /\ UNCHANGED <<req, err, c, first, once>>

\* The API server applies the patch of an answered call and the patched
\* object is submitted again.
Resubmit(r) ==
    /\ pc[r] = "done"
    /\ ~first[r].has
    /\ resp[r].body = "review"
    /\ resp[r].review.patch # NoPatch
    /\ LET patched == ApplyPatch(req[r], resp[r].review.patch)
       IN  /\ patched.ok
           /\ req' = [req EXCEPT ![r] = [@ EXCEPT
                        !.hasLabels = patched.hasLabels,
                        !.labels = patched.labels]]
    /\ first' = [first EXCEPT ![r] =
                   [has |-> TRUE, request |-> req[r], out |-> resp[r].review]]
    /\ pc' = [pc EXCEPT ![r] = "GetKubeClient"]
    /\ err' = [err EXCEPT ![r] = ""]
    /\ ret' = [ret EXCEPT ![r] = NotReturned]
    /\ resp' = [resp EXCEPT ![r] = NoResponse]
    /\ apiCalls' = [apiCalls EXCEPT ![r] = <<>>]
    /\ UNCHANGED <<c, once>>

Handle(r) ==
    \/ GetKubeClient(r)
    \/ doSlow(r)
    \/ initializeClient(r)
    \/ onceDone(r)
    \/ addLabel(r)
    \/ NamespacesGet(r)

Next == \E r \in ServerSlots : addLabelHook(r) \/ Handle(r)

NextEngine ==
    \E r \in EngineSlots : addLabelHookEngine(r) \/ Handle(r) \/ Resubmit(r)

Spec == Init /\ [][Next]_vars

EngineSpec == InitEngine /\ [][NextEngine]_vars

\* ---------------------------------------------------------------- claims

\* The handlers to which addLabel has returned a decision.
Decided(r) == ret[r].has /\ ~ret[r].out.isNil

\* The service value the specification derives from a request's labels: A-C
\* from appName=A and car_id=C, the one present of the two alone, none
\* without both.
Candidates(request) ==
    LET l == IF request.hasLabels THEN request.labels ELSE NoLabels
        app == "appName" \in DOMAIN l
        car == "car_id" \in DOMAIN l
    IN  IF app /\ car THEN {l["appName"] \o <<"-">> \o l["car_id"]}
        ELSE IF app THEN {l["appName"]}
        ELSE IF car THEN {l["car_id"]}
        ELSE {}

\* The observed state of the service label differs from value v.
ObservedDiffers(request, v) ==
    \/ ~request.hasLabels
    \/ "service" \notin DOMAIN request.labels
    \/ request.labels["service"] # v

\* C1: a decision for a Pod carries a patch if and only if a candidate value
\* can be derived from appName / car_id and it differs from the observed
\* state of the service label (absent, or present with another value).
C1_PatchIffDiffers ==
    \A r \in DOMAIN pc :
        (Decided(r) /\ req[r].kind = "Pod") =>
            ((ret[r].out.patch # NoPatch) <=>
             (\E v \in Candidates(req[r]) : ObservedDiffers(req[r], v)))

\* A Pod whose service label is present with a value other than the
\* candidate has been decided, and the decision carries a patch.
C1_Witness ==
    \E r \in DOMAIN pc :
        /\ Decided(r) /\ req[r].kind = "Pod"
        /\ ret[r].out.patch # NoPatch
        /\ req[r].hasLabels /\ "service" \in DOMAIN req[r].labels
        /\ \E v \in Candidates(req[r]) : req[r].labels["service"] # v

\* The labels of a decided request's object once the decision has taken
\* effect: as submitted when no patch is attached, else with the patch applied.
LabelsAfter(r) ==
    IF ret[r].out.patch = NoPatch
    THEN [ok |-> TRUE, hasLabels |-> req[r].hasLabels,
          labels |-> GetLabels(req[r])]
    ELSE ApplyPatch(req[r], ret[r].out.patch)

\* C2: for a Pod with appName=A and car_id=C whose namespace lookup succeeds,
\* addLabel's patch sets the service label to A-C, and with only one of the
\* two labels to that label's value.  Stated by its effect, which also lets a
\* label that already has the value stay unpatched: once the decision has
\* taken effect, the service label is the candidate.
C2_ServiceIsCandidate ==
    \A r \in DOMAIN pc :
        (Decided(r) /\ req[r].kind = "Pod") =>
            \A v \in Candidates(req[r]) :
                /\ LabelsAfter(r).ok
                /\ "service" \in DOMAIN LabelsAfter(r).labels
                /\ LabelsAfter(r).labels["service"] = v

\* C3: idempotence.  When the patch of a decision has been applied and the
\* patched object is submitted again, the second decision allows and carries
\* no patch.
C3_ResubmitNoPatch ==
    \A r \in DOMAIN pc :
        (first[r].has /\ Decided(r)) =>
            (ret[r].out.allowed /\ ret[r].out.patch = NoPatch)

\* C4: for an object of a kind other than Pod addLabel returns an allow
\* decision with no patch and no error, whatever the labels and whatever the
\* state of the process-wide handle.
C4_NonPodAllowed ==
    \A r \in DOMAIN pc :
        (ret[r].has /\ req[r].decodable /\ req[r].kind # "Pod") =>
            /\ ret[r].err = ""
            /\ ~ret[r].out.isNil
            /\ ret[r].out.allowed
            /\ ret[r].out.patch = NoPatch

\* The handlers whose namespace lookup failed (not found, or transport).
LookupFailed(r) ==
    \E i \in DOMAIN apiCalls[r] : apiCalls[r][i].outcome # "found"

\* C5: when the namespace lookup fails the admission call fails: addLabel
\* returns an error and no decision, addLabelHook answers with a non-2xx
\* status and a plain-text body, and no answer on an error path carries a
\* review or a patch.
C5_LookupFailureFails ==
    \A r \in DOMAIN pc :
        /\ LookupFailed(r) =>
              /\ ret[r].has /\ ret[r].err # "" /\ ret[r].out.isNil
              /\ resp[r].status = 500 /\ resp[r].body = "text"
        /\ (ret[r].has /\ ret[r].err # "") =>
              /\ ret[r].out.isNil
              /\ resp[r].status \notin 200..299
              /\ resp[r].body = "text"
        /\ resp[r].status \notin 200..299 =>
              /\ resp[r].body # "review"
              /\ resp[r].review.isNil
              /\ resp[r].review.patch = NoPatch

\* A Pod's namespace lookup has failed and its handler has answered.
C5_Witness ==
    \E r \in DOMAIN pc :
        LookupFailed(r) /\ pc[r] = "done" /\ req[r].kind = "Pod"

\* C6: the engine never denies: every decision addLabel returns, and every
\* review the hook writes, has allowed = TRUE.
C6_NeverDenies ==
    \A r \in DOMAIN pc :
        /\ Decided(r) => ret[r].out.allowed
        /\ resp[r].body = "review" => resp[r].review.allowed

\* One call has been decided with a patch attached and another without.
C6_Witness ==
    \E r1, r2 \in DOMAIN pc :
        /\ Decided(r1) /\ ret[r1].out.patch # NoPatch
        /\ Decided(r2) /\ ret[r2].out.patch = NoPatch

\* C7: every decision carries the uid of the request it was computed for,
\* with many requests in flight: never another request's uid, never an empty
\* uid in its place.
C7_UidEchoed ==
    \A r \in DOMAIN pc :
        /\ Decided(r) => ret[r].out.uid = req[r].uid
        /\ resp[r].body = "review" =>
              /\ resp[r].review.uid = req[r].uid
              /\ resp[r].review.uid # ""
              /\ \A r2 \in DOMAIN pc \ {r} :
                    pc[r2] # "idle" => resp[r].review.uid # req[r2].uid

\* Two requests of one run have both been answered with a review.
C7_Witness ==
    \E r1, r2 \in DOMAIN pc :
        /\ r1 # r2
        /\ resp[r1].body = "review" /\ resp[r2].body = "review"
        /\ resp[r1].review.patch # NoPatch

\* The handlers whose call of initOnce.Do has returned, and those that have
\* taken the handle GetKubeClient returned.
OnceReturned(r) ==
    pc[r] \in {"addLabel", "NamespacesGet", "panicked"} \/ ret[r].has

HasHandle(r) == pc[r] \in {"NamespacesGet", "panicked"} \/ ret[r].has

C9_ExactlyOneLookup ==
    \A r \in DOMAIN pc :
        ret[r].has =>
            /\ Len(apiCalls[r]) = 1
            /\ \A i \in DOMAIN apiCalls[r] : apiCalls[r][i].verb = "get"

\* C9: every call of addLabel performs at most one namespace lookup and no
\* write; it has performed exactly one when it returns a decision for a Pod
\* or the namespace error, none when it returns earlier; a failed lookup is
\* not retried.
C9_AtMostOneLookup ==
    \A r \in DOMAIN pc :
        /\ Len(apiCalls[r]) <= 1
        /\ \A i \in DOMAIN apiCalls[r] :
              /\ apiCalls[r][i].verb = "get"
              /\ apiCalls[r][i].resource = "namespaces"
        /\ ret[r].has =>
              ((Len(apiCalls[r]) = 1) <=>
               \/ Decided(r) /\ req[r].kind = "Pod"
               \/ ret[r].err = "failed to fetch namespace")

\* A call has returned the namespace error after its one lookup.
C9_Witness ==
    \E r \in DOMAIN pc :
        /\ ret[r].has /\ ret[r].err = "failed to fetch namespace"
        /\ Len(apiCalls[r]) = 1

C11_OneOpWithCandidate ==
    \A r \in DOMAIN pc :
        (Decided(r) /\ req[r].kind = "Pod" /\ req[r].hasLabels) =>
            \A v \in Candidates(req[r]) :
                ObservedDiffers(req[r], v) =>
                    LET d == DecodePatch(ret[r].out.patch)
                    IN  /\ d.ok
                        /\ Len(d.ops) = 1
                        /\ d.ops[1].path = "/metadata/labels/service"
                        /\ d.ops[1].value = v
                        /\ d.ops[1].op =
                              IF "service" \in DOMAIN req[r].labels
                              THEN "replace" ELSE "add"

\* C12: every patch addLabel returns applies, operation by operation, to the
\* object it was computed from (an add below /metadata/labels finds the map,
\* a replace finds the service key), and applying it leaves every label
\* other than service as it was.
C12_PatchApplies ==
    \A r \in DOMAIN pc :
        (Decided(r) /\ ret[r].out.patch # NoPatch) =>
            LET before == GetLabels(req[r])
                after == ApplyPatch(req[r], ret[r].out.patch)
            IN  /\ after.ok
                /\ DOMAIN after.labels \ {"service"} = DOMAIN before \ {"service"}
                /\ \A k \in DOMAIN before \ {"service"} :
                      after.labels[k] = before[k]

\* C13: for every candidate derivable from appName and car_id, a quote or a
\* backslash in it included, the patch bytes are a well-formed JSON Patch
\* document whose service operation decodes to a value equal to the
\* candidate, character for character.
C13_PatchDecodesToCandidate ==
    \A r \in DOMAIN pc :
        (Decided(r) /\ ret[r].out.patch # NoPatch) =>
            LET d == DecodePatch(ret[r].out.patch)
            IN  /\ d.ok
                /\ \A v \in Candidates(req[r]) :
                      d.ops[Len(d.ops)].value = v

\* C14: whenever GetKubeClient returns a nil error the handle it returns is
\* the initialized, non-nil client: once the one-time initialization has
\* failed every later call reports an error too, so no handler reaches the
\* namespace lookup with a nil handle.
C14_NilErrorMeansClient ==
    \A r \in DOMAIN pc :
        /\ (HasHandle(r) /\ err[r] = "") => c[r] # 0
        /\ (OnceReturned(r) /\ clientset = 0) => err[r] # ""
        /\ pc[r] # "panicked"

====
